---------------------------- MODULE Spec2Model ----------------------------
(***************************************************************************)
(* Model of src/app.py: a Streamlit chat front-end of a Bedrock agent.     *)
(* The script is re-run from the top on every widget event; the session    *)
(* state (messages, session_id, selected_question) survives between runs.  *)
(* Texts are strings, handled character by character with Len, SubSeq and  *)
(* \o only.  A run of the script is sequential and runs to its end, as the *)
(* source has it.  The debug mode (app.py:372-384) only prints and is left *)
(* out.  uuid4() is taken to return a value never seen before.             *)
(***************************************************************************)
EXTENDS Integers, Sequences, FiniteSets, TLC

VARIABLES
    AGENT_ID,           \* app.py:176  configuration, fixed for a behaviour
    AGENT_ALIAS_ID,     \* app.py:177
    messages,           \* st.session_state.messages
    session_id,         \* st.session_state.session_id
    selected_question,  \* st.session_state.selected_question (None when unset)
    pc,                 \* position of the script run
    event,              \* the widget event that triggered the current run
    call,               \* the invoke_bedrock_agent frame in progress (None when none)
    response,           \* the value invoke_bedrock_agent returned (None when none)
    hist,               \* history: what was sent to and received from the agent
    remote,             \* what the remote agent may stream: its events and
                        \* how many of them, fixed for a behaviour
    fin,                \* input of the function under study (pure-function specifications)
    fout,               \* its results
    fpc                 \* stage of the pure-function harness

vars == <<AGENT_ID, AGENT_ALIAS_ID, messages, session_id, selected_question,
          pc, event, call, response, hist, remote, fin, fout, fpc>>

appVars == <<AGENT_ID, AGENT_ALIAS_ID, messages, session_id, selected_question,
             pc, event, call, response, hist, remote>>

funVars == <<fin, fout, fpc>>

None == "None"

-----------------------------------------------------------------------------
(* Bounds of the model.                                                    *)

\* pieces concatenated into an input text of the sanitizer
MaxPieces == 4

\* references in a list of citation records given to the renderer
MaxRefs == 3

\* prompts accepted in one conversation (between two resets)
MaxTurns == 2

\* clicks on New Conversation
MaxResets == 1

\* events of one response stream, in the conversation specification
MaxEvents == 1

\* events of the response stream, in the single-turn specification
MaxTurnEvents == 2

\* pieces concatenated into an input text of the validator
MaxValPieces == 3

-----------------------------------------------------------------------------
(* Strings.                                                                *)

Char(s, i) == SubSeq(s, i, i)

UpperChars == "ABCDEFGHIJKLMNOPQRSTUVWXYZ"

LowerChars == "abcdefghijklmnopqrstuvwxyz"

\* the lower-case letter of every upper-case letter
LowerMap ==
    [c \in {Char(UpperChars, i) : i \in 1..Len(UpperChars)} |->
        Char(LowerChars, CHOOSE i \in 1..Len(UpperChars) : Char(UpperChars, i) = c)]

\* str.lower() of one ASCII character
LowerChar(c) == IF c \in DOMAIN LowerMap THEN LowerMap[c] ELSE c

\* the characters str.strip() removes (ASCII)
Whitespace == {" ", "\n", "\t", "\r", "\f"}

\* s[i:] starts with p
StartsWithAt(s, i, p) ==
    /\ i + Len(p) - 1 <= Len(s)
    /\ SubSeq(s, i, i + Len(p) - 1) = p

RECURSIVE Lower(_)
\* str.lower(), by halves
Lower(s) ==
    IF Len(s) = 0 THEN ""
    ELSE IF Len(s) = 1 THEN LowerChar(s)
         ELSE LET h == Len(s) \div 2
              IN  Lower(SubSeq(s, 1, h)) \o Lower(SubSeq(s, h + 1, Len(s)))

\* p in s
Contains(s, p) == \E i \in 1..(Len(s) - Len(p) + 1) : StartsWithAt(s, i, p)

\* the least element of a non-empty set of positions
Least(S) == CHOOSE x \in S : \A y \in S : x <= y

\* the first position from i on where old occurs in s, or 0
Find(s, i, old) ==
    LET at == {j \in i..(Len(s) - Len(old) + 1) : StartsWithAt(s, j, old)}
    IN  IF at = {} THEN 0 ELSE Least(at)

RECURSIVE ReplaceFrom(_, _, _, _)
ReplaceFrom(s, i, old, new) ==
    LET j == Find(s, i, old)
    IN  IF j = 0 THEN SubSeq(s, i, Len(s))
        ELSE SubSeq(s, i, j - 1) \o new \o ReplaceFrom(s, j + Len(old), old, new)

\* str.replace(old, new): leftmost, non-overlapping occurrences
Replace(s, old, new) == ReplaceFrom(s, 1, old, new)

\* str.strip()
Strip(s) ==
    LET kept == {i \in 1..Len(s) : Char(s, i) \notin Whitespace}
    IN  IF kept = {} THEN ""
        ELSE SubSeq(s, Least(kept), CHOOSE j \in kept : \A k \in kept : k <= j)

RECURSIVE SplitFrom(_, _, _)
SplitFrom(s, i, sep) ==
    LET j == Find(s, i, sep)
    IN  IF j = 0 THEN <<SubSeq(s, i, Len(s))>>
        ELSE <<SubSeq(s, i, j - 1)>> \o SplitFrom(s, j + 1, sep)

\* str.split(sep) for a one-character separator
Split(s, sep) == SplitFrom(s, 1, sep)

RECURSIVE Join(_, _)
\* sep.join(parts)
Join(sep, parts) ==
    IF Len(parts) = 0 THEN ""
    ELSE IF Len(parts) = 1 THEN parts[1]
         ELSE parts[1] \o sep \o Join(sep, Tail(parts))

-----------------------------------------------------------------------------
(* Regular expressions of cleanup_response_text.  A pattern is a sequence  *)
(* of parts; a part is a list of alternatives (tried in order) that may be *)
(* optional (greedy: tried before skipping); matching backtracks.          *)

Lit(s) == [opt |-> FALSE, alts |-> <<s>>]

Opt(s) == [opt |-> TRUE, alts |-> <<s>>]

Alt(ss) == [opt |-> FALSE, alts |-> ss]

\* a phrase followed by \.?
Phrase(s) == <<Lit(s), Opt(".")>>

\* app.py:59-76, lower-cased (the patterns are applied with re.IGNORECASE)
unwanted_phrases == <<
    Phrase("this is outlined in the search results"),
    Phrase("this is also outlined in the search results"),
    Phrase("this is mentioned in the search results"),
    Phrase("this is also mentioned in the search results"),
    Phrase("as mentioned in the search results"),
    Phrase("according to the search results"),
    Phrase("the search results indicate"),
    Phrase("based on the search results"),
    Phrase("as shown in the search results"),
    Phrase("as outlined in the search results"),
    Phrase("as stated in the search results"),
    Phrase("this is outlined in the table in the search results"),
    Phrase("this is also outlined in the table in the search results"),
    Phrase("this information is found in the search results"),
    Phrase("this can be found in the search results"),
    << Lit("this is "), Opt("also "),
       Alt(<<"outlined", "mentioned", "stated", "found", "shown">>),
       Lit(" in "), Opt("the "), Opt("table in "), Opt("the "),
       Lit("search results"), Opt(".") >> >>

RECURSIVE MatchParts(_, _, _, _)
RECURSIVE MatchAlts(_, _, _, _, _)

\* the alternatives a.. of part k at position i of s, then the rest of the
\* pattern; the position after the match, or -1
MatchAlts(s, i, parts, k, a) ==
    IF a > Len(parts[k].alts)
    THEN IF parts[k].opt THEN MatchParts(s, i, parts, k + 1) ELSE -1
    ELSE LET lit == parts[k].alts[a]
             r == IF StartsWithAt(s, i, lit)
                  THEN MatchParts(s, i + Len(lit), parts, k + 1)
                  ELSE -1
         IN  IF r # -1 THEN r ELSE MatchAlts(s, i, parts, k, a + 1)

\* parts k.. of the pattern at position i of s (s is lower-cased)
MatchParts(s, i, parts, k) ==
    IF k > Len(parts) THEN i ELSE MatchAlts(s, i, parts, k, 1)

RECURSIVE SubFrom(_, _, _, _)
\* low is Lower(s): the match is case-insensitive, the kept text is s's;
\* the leftmost match from i on is removed, then the scan goes on after it
SubFrom(s, low, i, parts) ==
    LET at == {j \in i..Len(s) : MatchParts(low, j, parts, 1) > j}
    IN  IF at = {} THEN SubSeq(s, i, Len(s))
        ELSE LET j == Least(at)
             IN  SubSeq(s, i, j - 1)
                 \o SubFrom(s, low, MatchParts(low, j, parts, 1), parts)

\* re.sub(pattern, '', s, flags=re.IGNORECASE)
RemovePattern(s, parts) == SubFrom(s, Lower(s), 1, parts)

RECURSIVE RemovePhrasesFrom(_, _)
\* app.py:78-79: the patterns are removed one after the other, in order
RemovePhrasesFrom(s, k) ==
    IF k > Len(unwanted_phrases) THEN s
    ELSE RemovePhrasesFrom(RemovePattern(s, unwanted_phrases[k]), k + 1)

\* the last position of the run of character c that starts at i
RunEnd(s, i, c) ==
    LET other == {j \in i..Len(s) : Char(s, j) # c}
    IN  IF other = {} THEN Len(s) ELSE Least(other) - 1

RECURSIVE CollapseFrom(_, _, _, _, _)
\* every run of at least min characters c becomes rep
CollapseFrom(s, i, c, min, rep) ==
    LET j == Find(s, i, c)
    IN  IF j = 0 THEN SubSeq(s, i, Len(s))
        ELSE LET e == RunEnd(s, j, c)
             IN  SubSeq(s, i, j - 1)
                 \o (IF e - j + 1 >= min THEN rep ELSE SubSeq(s, j, e))
                 \o CollapseFrom(s, e + 1, c, min, rep)

\* re.sub(r' +', ' ', s)
CollapseSpaces(s) == CollapseFrom(s, 1, " ", 1, " ")

\* re.sub(r'\n{3,}', '\n\n', s)
CollapseNewlines(s) == CollapseFrom(s, 1, "\n", 3, "\n\n")

\* '\n'.join([line.strip() for line in s.split('\n')])
StripLines(s) ==
    LET lines == Split(s, "\n")
    IN  Join("\n", [k \in 1..Len(lines) |-> Strip(lines[k])])

\* app.py:52-56: literal backslash-n becomes a newline, literal backslash-t
\* a space, literal backslash-r nothing
RepairEscapes(s) ==
    Replace(Replace(Replace(s, "\\n", "\n"), "\\t", " "), "\\r", "")

\* app.py:43-102
cleanup_response_text(text) ==
    Strip(StripLines(CollapseNewlines(CollapseSpaces(
        RemovePhrasesFrom(RepairEscapes(text), 1)))))

-----------------------------------------------------------------------------
(* Citations.  A citation record and a reference are dictionaries: records *)
(* whose DOMAIN holds the keys that are present.                           *)

\* d.get(key, default)
Get(d, key, default) == IF key \in DOMAIN d THEN d[key] ELSE default

\* the dictionary {} (and the list [])
Empty == <<>>

RECURSIVE Flatten(_)
\* the references of all records, in arrival order (app.py:132-135)
Flatten(citations) ==
    IF Len(citations) = 0 THEN <<>>
    ELSE Get(citations[1], "retrievedReferences", <<>>) \o Flatten(Tail(citations))

\* app.py:139-144: the text of a reference ("" stands for None too: both are
\* skipped at app.py:151)
ReferenceText(reference) ==
    LET content == Get(reference, "content", Empty)
    IN  IF "text" \in DOMAIN content /\ content["text"] # ""
        THEN Strip(content["text"])
        ELSE IF "content" \in DOMAIN content /\ content["content"] # ""
             THEN Strip(content["content"])
             ELSE ""

\* app.py:155-156
ReferenceUri(reference) ==
    Get(Get(Get(reference, "location", Empty), "s3Location", Empty),
        "uri", "Unknown source")

\* app.py:157
SourceName(uri) ==
    IF Contains(uri, "/")
    THEN LET parts == Split(uri, "/") IN parts[Len(parts)]
    ELSE uri

RECURSIVE SidebarFromGaps(_, _, _)
\* SidebarFrom with the number advanced on skipped references too
SidebarFromGaps(refs, i, citation_num) ==
    IF i > Len(refs) THEN <<>>
    ELSE LET text == ReferenceText(refs[i])
             uri == ReferenceUri(refs[i])
         IN  IF text = ""
             THEN SidebarFromGaps(refs, i + 1, citation_num + 1)
             ELSE <<[num |-> citation_num, source_name |-> SourceName(uri),
                     uri |-> uri, text |-> text]>>
                  \o SidebarFromGaps(refs, i + 1, citation_num + 1)

RECURSIVE SidebarFrom(_, _, _)
\* app.py:131-167: the loop over the references from the i-th on, with
\* citation_num the next number
SidebarFrom(refs, i, citation_num) ==
    IF i > Len(refs) THEN <<>>
    ELSE LET text == ReferenceText(refs[i])
             uri == ReferenceUri(refs[i])
         IN  IF text = ""
             THEN SidebarFrom(refs, i + 1, citation_num)
             ELSE <<[num |-> citation_num, source_name |-> SourceName(uri),
                     uri |-> uri, text |-> text]>>
                  \o SidebarFrom(refs, i + 1, citation_num + 1)

\* app.py:121-171: the numbered entries the sidebar shows
display_citation_sidebar(citations) ==
    IF Len(citations) = 0 THEN <<>>
    ELSE SidebarFrom(Flatten(citations), 1, 1)

Digits == "0123456789"

RECURSIVE ToStr(_)
\* str(n) of a natural number
ToStr(n) ==
    IF n < 10 THEN Char(Digits, n + 1)
    ELSE ToStr(n \div 10) \o Char(Digits, (n % 10) + 1)

\* f'[{i}]'
Marker(i) == "[" \o ToStr(i) \o "]"

\* ' '.join([f'[{i+1}]' for i in range(n)])
Markers(n) == Join(" ", [i \in 1..n |-> Marker(i)])

RECURSIVE CountRefs(_)
\* app.py:112
CountRefs(citations) ==
    IF Len(citations) = 0 THEN 0
    ELSE Len(Get(citations[1], "retrievedReferences", <<>>))
         + CountRefs(Tail(citations))

\* insert_citation_markers without the check for markers already there
insert_citation_markers_always(text, citations) ==
    IF Len(citations) = 0 THEN text
    ELSE IF CountRefs(citations) > 0
         THEN text \o " " \o Markers(CountRefs(citations))
         ELSE text

\* app.py:104-119
insert_citation_markers(text, citations) ==
    IF Len(citations) = 0 THEN text
    ELSE LET citation_count == CountRefs(citations)
         IN  IF /\ citation_count > 0
                /\ ~ \E i \in 1..citation_count : Contains(text, Marker(i))
             THEN text \o " " \o Markers(citation_count)
             ELSE text

-----------------------------------------------------------------------------
(* The script: configuration, session state, widget events.                *)

\* Python truthiness of a configuration value (None or '' are falsy)
Truthy(v) == v # None /\ v # ""

\* session ids: uuid4() values and ids the agent makes up
Uuid(n) == <<"uuid", n>>

AgentId(n) == <<"agent", n>>

\* no 'sessionId' key in the response
NoId == <<"absent", 0>>

\* ids the agent may return besides those it was sent
AgentIds == {AgentId(1)}

\* app.py:390-397
SUGGESTED_QUESTIONS == <<
    "What can you do?",
    "How do I submit a procurement request?",
    "What are the procurement guidelines?",
    "What is the approval process for purchases?",
    "What are the vendor requirements?",
    "How do I check the status of my procurement request?" >>

\* the buttons the user clicks among (all buttons are handled alike:
\* app.py:406-412): the first one and the last one
ClickedQuestions == {1, Len(SUGGESTED_QUESTIONS)}

\* what the user may type into st.chat_input (non-empty: app.py:486)
ChatPrompts == {"What is a PO?"}

NoEvent == [type |-> "none", arg |-> ""]

NoCall == [stage |-> "none", prompt |-> "", current_session_id |-> NoId,
           completion |-> "", citations |-> <<>>, chunk_count |-> 0,
           consumed |-> 0]

NoResponse == [text |-> "", citations |-> <<>>]

\* one citation record as Bedrock sends it
CitA == [retrievedReferences |->
           <<[content |-> [text |-> "Section 4.2 of the handbook"],
              location |-> [s3Location |-> [uri |-> "s3://kb/handbook.pdf"]]]>>]

\* a record with a reference that has no text
CitB == [retrievedReferences |->
           <<[content |-> [text |-> "Rule 7"],
              location |-> [s3Location |-> [uri |-> "s3://kb/rules.pdf"]]],
             [content |-> [text |-> ""], location |-> Empty]>>]

\* the events of the conversation specification: a text chunk with its
\* attribution
BasicEvents == {
    [chunk |-> [bytes |-> "Hi there.", attribution |-> [citations |-> <<CitA>>]]] }

\* the events of the single-turn specification
RichEvents == {
    [chunk |-> [bytes |-> " "]],
    [chunk |-> [bytes |-> "ok"]],
    [chunk |-> [bytes |-> "Purchases over $5,000 need approval.\\n"]],
    [chunk |-> [bytes |-> "This is mentioned in the search results."]],
    [chunk |-> [bytes |-> "See the rules.", attribution |-> [citations |-> <<CitB>>]]],
    [chunk |-> [attribution |-> [citations |-> <<CitA>>]]],
    [citations |-> <<CitA>>],
    [trace |-> Empty] }

\* str(e) of the exceptions the remote call raises
ErrorTexts == {"ThrottlingException"}

InitHist == [issued |-> 1, sent |-> {}, sentBefore |-> {}, resets |-> 0,
             turns |-> 0, remoteCalls |-> 0, inFlight |-> 0,
             outcome |-> "none", returned |-> NoId, adopted |-> NoId,
             raw |-> ""]

\* app.py:18-22 and 173-185: the state when the first run of the script starts
AppInit(agent, first) ==
    /\ AGENT_ID \in {None, "", "AGENT12345"}
    /\ AGENT_ALIAS_ID \in {None, "ALIAS12345"}
    /\ messages = <<>>
    /\ session_id = Uuid(1)
    /\ selected_question = None
    /\ pc = "start"
    /\ event = first
    /\ call = NoCall
    /\ response = NoResponse
    /\ hist = InitHist
    /\ remote = agent

FunIdle ==
    /\ fin = [text |-> "", citations |-> <<>>]
    /\ fout = [once |-> "", twice |-> "", shown |-> <<>>]
    /\ fpc = "off"

\* st.rerun(): the script starts again from the top, with no widget event
Rerun ==
    /\ pc' = "start"
    /\ event' = NoEvent

\* the user clicks New Conversation (the script is idle, its widgets shown)
UserNewConversation ==
    /\ pc = "idle"
    /\ hist.resets < MaxResets
    /\ event' = [type |-> "new_conversation", arg |-> ""]
    /\ pc' = "start"
    /\ UNCHANGED <<AGENT_ID, AGENT_ALIAS_ID, messages, session_id,
                   selected_question, call, response, hist, remote>>
    /\ UNCHANGED funVars

\* the user clicks a suggested question (shown only while the log is empty)
UserSuggested ==
    /\ pc = "idle"
    /\ Len(messages) = 0
    /\ hist.turns < MaxTurns
    /\ \E idx \in ClickedQuestions :
           event' = [type |-> "suggested", arg |-> SUGGESTED_QUESTIONS[idx]]
    /\ pc' = "start"
    /\ UNCHANGED <<AGENT_ID, AGENT_ALIAS_ID, messages, session_id,
                   selected_question, call, response, hist, remote>>
    /\ UNCHANGED funVars

\* the user submits the chat input
UserChat ==
    /\ pc = "idle"
    /\ hist.turns < MaxTurns
    /\ \E p \in ChatPrompts : event' = [type |-> "chat", arg |-> p]
    /\ pc' = "start"
    /\ UNCHANGED <<AGENT_ID, AGENT_ALIAS_ID, messages, session_id,
                   selected_question, call, response, hist, remote>>
    /\ UNCHANGED funVars

\* ConfigOk with one identifier enough
ConfigOkEither == Truthy(AGENT_ID) \/ Truthy(AGENT_ALIAS_ID)

\* app.py:347: the script may go on
ConfigOk == Truthy(AGENT_ID) /\ Truthy(AGENT_ALIAS_ID)

\* app.py:346-357
ConfigCheck ==
    /\ pc = "start"
    /\ pc' = IF ConfigOk THEN "sidebar" ELSE "stopped"
    /\ UNCHANGED <<AGENT_ID, AGENT_ALIAS_ID, messages, session_id,
                   selected_question, event, call, response, hist, remote>>
    /\ UNCHANGED funVars

\* Reset with the session id kept
ResetKeepsId ==
    /\ messages' = <<>>
    /\ session_id' = session_id
    /\ hist' = [hist EXCEPT !.resets = @ + 1, !.turns = 0,
                            !.sentBefore = hist.sent, !.outcome = "none",
                            !.adopted = NoId]
    /\ Rerun

\* app.py:365-368 when the button was clicked
Reset ==
    /\ messages' = <<>>
    /\ session_id' = Uuid(hist.issued + 1)
    /\ hist' = [hist EXCEPT !.issued = @ + 1, !.resets = @ + 1, !.turns = 0,
                            !.sentBefore = hist.sent, !.outcome = "none",
                            !.adopted = NoId]
    /\ Rerun

\* app.py:360-387
NewConversationButton ==
    /\ pc = "sidebar"
    /\ IF event.type = "new_conversation"
       THEN Reset
       ELSE /\ pc' = "suggested"
            /\ UNCHANGED <<messages, session_id, hist, event>>
    /\ UNCHANGED <<AGENT_ID, AGENT_ALIAS_ID, selected_question, call,
                   response, remote>>
    /\ UNCHANGED funVars

\* app.py:399-414
SuggestedButtons ==
    /\ pc = "suggested"
    /\ IF Len(messages) = 0 /\ event.type = "suggested"
       THEN /\ selected_question' = event.arg
            /\ Rerun
       ELSE /\ pc' = "selected"
            /\ UNCHANGED <<selected_question, event>>
    /\ UNCHANGED <<AGENT_ID, AGENT_ALIAS_ID, messages, session_id, call,
                   response, hist, remote>>
    /\ UNCHANGED funVars

\* the frame of invoke_bedrock_agent(prompt) when it is entered
Enter(prompt) == [NoCall EXCEPT !.stage = "enter", !.prompt = prompt]

\* a prompt is taken up: its user turn is appended (app.py:422, 488)
TakePrompt(prompt) ==
    /\ messages' = Append(messages, [role |-> "user", content |-> prompt,
                                     citations |-> <<>>])
    /\ call' = Enter(prompt)
    /\ hist' = [hist EXCEPT !.turns = @ + 1, !.remoteCalls = 0,
                            !.outcome = "none", !.returned = NoId]

\* app.py:417-426
SelectedQuestion ==
    /\ pc = "selected"
    /\ IF selected_question # None /\ selected_question # ""
       THEN /\ selected_question' = None
            /\ TakePrompt(selected_question)
            /\ pc' = "sq_invoke"
       ELSE /\ pc' = "chat"
            /\ UNCHANGED <<selected_question, messages, call, hist>>
    /\ UNCHANGED <<AGENT_ID, AGENT_ALIAS_ID, session_id, event, response,
                   remote>>
    /\ UNCHANGED funVars

\* app.py:486-492, and the end of a run that handles no prompt
ChatInput ==
    /\ pc = "chat"
    /\ IF event.type = "chat"
       THEN /\ TakePrompt(event.arg)
            /\ pc' = "chat_invoke"
            /\ UNCHANGED event
       ELSE /\ pc' = "idle"
            /\ event' = NoEvent
            /\ UNCHANGED <<messages, call, hist>>
    /\ UNCHANGED <<AGENT_ID, AGENT_ALIAS_ID, session_id, selected_question,
                   response, remote>>
    /\ UNCHANGED funVars

-----------------------------------------------------------------------------
(* invoke_bedrock_agent, app.py:204-312.                                   *)

InvokePcs == {"sq_invoke", "chat_invoke"}

AppendPcs == {"sq_append", "chat_append"}

\* where the caller goes on when invoke_bedrock_agent returns
AfterInvoke(p) == IF p = "sq_invoke" THEN "sq_append" ELSE "chat_append"

\* ErrorResponse with the message bare and the citations collected so far
ErrorResponseLeaky(kind, msg) ==
    [text |-> IF kind = "ClientError" THEN "AWS Error: " \o msg
              ELSE "Error invoking agent: " \o msg,
     citations |-> call.citations]

\* app.py:305-312: the value returned from the except clauses
ErrorResponse(kind, msg) ==
    LET error_message == IF kind = "ClientError"
                         THEN "AWS Error: " \o msg
                         ELSE "Error invoking agent: " \o msg
    IN  [text |-> "Error: " \o error_message, citations |-> <<>>]

\* an exception is caught: the function returns the error response
Fail(kind, msg) ==
    /\ response' = ErrorResponse(kind, msg)
    /\ call' = NoCall
    /\ pc' = AfterInvoke(pc)
    /\ hist' = [hist EXCEPT !.inFlight = 0, !.outcome = "failed",
                            !.adopted = NoId]

\* Adopt with the returned id ignored
AdoptNever(held, sid) == held

\* app.py:233-234: the held id after a response carrying sid (NoId: no key)
Adopt(held, sid) == IF sid # NoId THEN sid ELSE held

\* app.py:208-230: the client is built, the session id chosen (session_id
\* is never passed by the callers) and the request sent
InvokeSend ==
    /\ pc \in InvokePcs
    /\ call.stage = "enter"
    /\ \/ /\ \E msg \in ErrorTexts : Fail("Exception", msg)
          /\ UNCHANGED session_id
       \/ LET fresh == session_id = NoId
              current_session_id == IF fresh THEN Uuid(hist.issued + 1)
                                    ELSE session_id
          IN  /\ session_id' = current_session_id
              /\ call' = [call EXCEPT !.stage = "sent",
                             !.current_session_id = current_session_id]
              /\ hist' = [hist EXCEPT
                             !.issued = IF fresh THEN @ + 1 ELSE @,
                             !.sent = @ \cup {current_session_id},
                             !.remoteCalls = @ + 1,
                             !.inFlight = @ + 1]
              /\ UNCHANGED <<pc, response>>
    /\ UNCHANGED <<AGENT_ID, AGENT_ALIAS_ID, messages, selected_question,
                   event, remote>>
    /\ UNCHANGED funVars

\* app.py:230-240: invoke_agent raises, or returns a response that may
\* carry a session id
InvokeResponse ==
    /\ pc \in InvokePcs
    /\ call.stage = "sent"
    /\ \/ /\ \E kind \in {"ClientError", "Exception"}, msg \in ErrorTexts :
                 Fail(kind, msg)
          /\ UNCHANGED session_id
       \/ \E sid \in {NoId} \cup AgentIds \cup hist.sent :
              /\ session_id' = Adopt(session_id, sid)
              /\ call' = [call EXCEPT !.stage = "stream"]
              /\ hist' = [hist EXCEPT !.returned = sid]
              /\ UNCHANGED <<pc, response>>
    /\ UNCHANGED <<AGENT_ID, AGENT_ALIAS_ID, messages, selected_question,
                   event, remote>>
    /\ UNCHANGED funVars

\* app.py:244-264: one event of the stream
ProcessEvent(frame, ev) ==
    LET chunk == Get(ev, "chunk", Empty)
        has_chunk == "chunk" \in DOMAIN ev
        from_chunk == IF has_chunk
                      THEN Get(Get(chunk, "attribution", Empty), "citations", <<>>)
                      ELSE <<>>
        from_event == Get(ev, "citations", <<>>)
    IN  [frame EXCEPT
            !.chunk_count = IF has_chunk THEN @ + 1 ELSE @,
            !.completion = IF has_chunk THEN @ \o Get(chunk, "bytes", "") ELSE @,
            !.citations = @ \o from_chunk \o from_event,
            !.consumed = @ + 1]

\* app.py:242: the loop takes the next event
StreamEvent ==
    /\ pc \in InvokePcs
    /\ call.stage = "stream"
    /\ call.consumed < remote.max
    /\ \E ev \in remote.events : call' = ProcessEvent(call, ev)
    /\ UNCHANGED <<AGENT_ID, AGENT_ALIAS_ID, messages, session_id,
                   selected_question, pc, event, response, hist, remote>>
    /\ UNCHANGED funVars

\* app.py:242-264: the stream (or the decoding of a chunk) raises
StreamRaise ==
    /\ pc \in InvokePcs
    /\ call.stage = "stream"
    /\ \E kind \in {"ClientError", "Exception"}, msg \in ErrorTexts :
           Fail(kind, msg)
    /\ UNCHANGED <<AGENT_ID, AGENT_ALIAS_ID, messages, session_id,
                   selected_question, event, remote>>
    /\ UNCHANGED funVars

\* app.py:275-301: the text returned for the accumulated raw completion
FinalText(raw_completion) ==
    LET completion == cleanup_response_text(raw_completion)
    IN  IF completion = "" \/ Len(completion) < 5
        THEN IF raw_completion # "" THEN Strip(raw_completion)
             ELSE "Error: Empty response received"
        ELSE completion

\* app.py:266-303: the stream has ended
InvokeReturn ==
    /\ pc \in InvokePcs
    /\ call.stage = "stream"
    /\ response' = [text |-> FinalText(call.completion),
                    citations |-> call.citations]
    /\ call' = NoCall
    /\ pc' = AfterInvoke(pc)
    /\ hist' = [hist EXCEPT !.inFlight = 0, !.outcome = "ok",
                            !.adopted = hist.returned,
                            !.raw = call.completion]
    /\ UNCHANGED <<AGENT_ID, AGENT_ALIAS_ID, messages, session_id,
                   selected_question, event, remote>>
    /\ UNCHANGED funVars

\* AppendAssistant with the turn lost
AppendAssistantLost ==
    /\ UNCHANGED funVars
    /\ pc \in AppendPcs
    /\ response' = NoResponse
    /\ Rerun
    /\ UNCHANGED <<AGENT_ID, AGENT_ALIAS_ID, messages, session_id,
                   selected_question, call, hist, remote>>

\* app.py:428-434 and 494-502: the assistant turn is appended, the script
\* is run again
AppendAssistant ==
    /\ pc \in AppendPcs
    /\ messages' = Append(messages, [role |-> "assistant",
                                     content |-> response.text,
                                     citations |-> response.citations])
    /\ response' = NoResponse
    /\ Rerun
    /\ UNCHANGED <<AGENT_ID, AGENT_ALIAS_ID, session_id, selected_question,
                   call, hist, remote>>
    /\ UNCHANGED funVars

-----------------------------------------------------------------------------
(* Specifications.                                                         *)

\* one run of the script after the other, between the user's events
Run ==
    \/ ConfigCheck
    \/ NewConversationButton
    \/ SuggestedButtons
    \/ SelectedQuestion
    \/ ChatInput
    \/ InvokeSend
    \/ InvokeResponse
    \/ StreamEvent
    \/ StreamRaise
    \/ InvokeReturn
    \/ AppendAssistant

User ==
    \/ UserNewConversation
    \/ UserSuggested
    \/ UserChat

Init ==
    /\ AppInit([events |-> BasicEvents, max |-> MaxEvents], NoEvent)
    /\ FunIdle

Next == User \/ Run

\* the conversation: any sequence of prompts and resets
Spec == Init /\ [][Next]_vars

\* one prompt, submitted to a fresh session, with the richer stream
InitTurn ==
    /\ \E first \in {[type |-> "chat", arg |-> p] : p \in ChatPrompts}
              \cup {[type |-> "suggested", arg |-> SUGGESTED_QUESTIONS[1]]} :
           AppInit([events |-> RichEvents, max |-> MaxTurnEvents], first)
    /\ FunIdle

NextTurn == Run

SpecTurn == InitTurn /\ [][NextTurn]_vars

-----------------------------------------------------------------------------
(* The functions on their own: an input is drawn, the function applied.    *)

\* the script is not running
AppOff ==
    /\ AGENT_ID = None
    /\ AGENT_ALIAS_ID = None
    /\ messages = <<>>
    /\ session_id = Uuid(1)
    /\ selected_question = None
    /\ pc = "off"
    /\ event = NoEvent
    /\ call = NoCall
    /\ response = NoResponse
    /\ hist = InitHist
    /\ remote = [events |-> {}, max |-> 0]

NoResult == [once |-> "", twice |-> "", shown |-> <<>>]

\* the pieces the raw texts given to the sanitizer are made of
SanPieces == {"a", " ", "\n", "\\", "n", "r",
              "This is mentioned in the search results."}

RECURSIVE Concat(_)
Concat(pieces) ==
    IF Len(pieces) = 0 THEN "" ELSE pieces[1] \o Concat(Tail(pieces))

SanTexts ==
    {Concat(ps) : ps \in UNION {[1..k -> SanPieces] : k \in 0..MaxPieces}}

InitSanitize ==
    /\ AppOff
    /\ fin \in [text : SanTexts, citations : {<<>>}]
    /\ fout = NoResult
    /\ fpc = "input"

\* cleanup_response_text on the input
Sanitize ==
    /\ fpc = "input"
    /\ fout' = [fout EXCEPT !.once = cleanup_response_text(fin.text)]
    /\ fpc' = "once"
    /\ UNCHANGED <<fin, appVars>>

\* cleanup_response_text on its own result
SanitizeAgain ==
    /\ fpc = "once"
    /\ fout' = [fout EXCEPT !.twice = cleanup_response_text(fout.once)]
    /\ fpc' = "twice"
    /\ UNCHANGED <<fin, appVars>>

NextSanitize == Sanitize \/ SanitizeAgain

SpecSanitize == InitSanitize /\ [][NextSanitize]_vars

\* references as they come in citation records
RefUniverse == {
    [content |-> [text |-> "Section 4.2"],
     location |-> [s3Location |-> [uri |-> "s3://kb/handbook.pdf"]]],
    [content |-> [text |-> "", content |-> " Rule 7 "],
     location |-> [s3Location |-> [uri |-> "rules.txt"]]],
    [content |-> [text |-> " ", content |-> "Appendix"],
     location |-> [s3Location |-> [uri |-> "s3://kb/appendix.pdf"]]],
    [content |-> [text |-> ""]],
    Empty,
    [content |-> [content |-> "Form B"], location |-> Empty] }

\* the references rs as citation records: all in one record, one record
\* each, or the first one apart from the others with a record that has
\* no references between them
Grouped(rs, mode) ==
    IF mode = "one" THEN <<[retrievedReferences |-> rs]>>
    ELSE IF mode = "each"
         THEN [k \in 1..Len(rs) |-> [retrievedReferences |-> <<rs[k]>>]]
         ELSE IF Len(rs) = 0 THEN <<[generatedResponsePart |-> Empty]>>
              ELSE <<[retrievedReferences |-> <<rs[1]>>],
                     [generatedResponsePart |-> Empty],
                     [retrievedReferences |-> Tail(rs)]>>

CitationInputs ==
    {Grouped(rs, mode) :
        rs \in UNION {[1..k -> RefUniverse] : k \in 0..MaxRefs},
        mode \in {"one", "each", "apart"}}

\* stored contents of assistant turns
MarkerTexts == {"Answer text", "Answer text [1] [2]", "See [2] for details",
                "", "Item [3]", "Array a[1"}

InitRender ==
    /\ AppOff
    /\ fin \in [text : MarkerTexts, citations : CitationInputs]
    /\ fout = NoResult
    /\ fpc = "input"

\* app.py:443-459 and 465-475: an assistant turn with these contents and
\* citations is rendered, its citations shown in the sidebar
RenderMessage ==
    /\ fpc = "input"
    /\ fout' = [fout EXCEPT
                  !.once = IF Len(fin.citations) > 0
                           THEN insert_citation_markers(fin.text, fin.citations)
                           ELSE fin.text,
                  !.shown = IF Len(fin.citations) > 0
                            THEN display_citation_sidebar(fin.citations)
                            ELSE <<>>]
    /\ fpc' = "rendered"
    /\ UNCHANGED <<fin, appVars>>

\* insert_citation_markers on its own result
Reprocess ==
    /\ fpc = "rendered"
    /\ fout' = [fout EXCEPT
                  !.twice = insert_citation_markers(fout.once, fin.citations)]
    /\ fpc' = "reprocessed"
    /\ UNCHANGED <<fin, appVars>>

NextRender == RenderMessage \/ Reprocess

SpecRender == InitRender /\ [][NextRender]_vars

-----------------------------------------------------------------------------
(* validate_response_integrity, app.py:24-41, as cleanup_response_text     *)
(* calls it in debug mode (app.py:93-95).                                  *)

\* c.isupper() of one ASCII character
IsUpper(c) == c \in DOMAIN LowerMap

\* app.py:30
TooShortIssue == "Response was significantly shortened during processing"

\* app.py:34
MidSentenceIssue == "Response appears to start mid-sentence"

\* app.py:24-41: the issues found in the cleaned text
validate_response_integrity(text, original_length) ==
    (IF Len(text) < 10 /\ original_length > 10 THEN <<TooShortIssue>> ELSE <<>>)
    \o (IF /\ text # ""
           /\ ~IsUpper(Char(text, 1))
           /\ Char(text, 1) \notin {"(", "[", "\"", "'"}
        THEN <<MidSentenceIssue>> ELSE <<>>)

\* the pieces the raw texts given to the validator are made of
ValPieces == {"a", "A", "4", "(", "[", "\"", "'", "-", " ", "abcde",
              "This is mentioned in the search results."}

ValTexts ==
    {Concat(ps) : ps \in UNION {[1..k -> ValPieces] : k \in 0..MaxValPieces}}

InitValidate ==
    /\ AppOff
    /\ fin \in [text : ValTexts, citations : {<<>>}]
    /\ fout = [once |-> "", twice |-> "", shown |-> <<>>, issues |-> <<>>]
    /\ fpc = "input"

\* app.py:48-49 and 91: the text is cleaned
CleanForValidation ==
    /\ fpc = "input"
    /\ fout' = [fout EXCEPT !.once = cleanup_response_text(fin.text)]
    /\ fpc' = "cleaned"
    /\ UNCHANGED <<fin, appVars>>

\* app.py:93-95: the cleaned text is validated against the original length
Validate ==
    /\ fpc = "cleaned"
    /\ fout' = [fout EXCEPT
                  !.issues = validate_response_integrity(fout.once, Len(fin.text))]
    /\ fpc' = "validated"
    /\ UNCHANGED <<fin, appVars>>

NextValidate == CleanForValidation \/ Validate

SpecValidate == InitValidate /\ [][NextValidate]_vars

-----------------------------------------------------------------------------
(* Properties.                                                             *)

\* the remote call of the frame has been sent
Sent == call.stage \in {"sent", "stream"}

\* C1: after an invocation that completed without error and whose response
\* carried a session id, the held id is that id, and the next invocation
\* (no reset in between) sends exactly that id.
C1_ReturnedIdHeldAndSentNext ==
    /\ (hist.outcome = "ok" /\ hist.returned # NoId /\ call.stage = "none")
           => session_id = hist.returned
    /\ (Sent /\ hist.adopted # NoId)
           => call.current_session_id = hist.adopted

\* an invocation is sending the id the agent assigned in the turn before
C1_Witness ==
    /\ call.stage = "sent"
    /\ hist.adopted \in AgentIds
    /\ call.current_session_id = hist.adopted
    /\ Uuid(1) \in hist.sent

\* after a reset and before the next prompt, the log is empty and the held
\* id is a fresh one, never sent before
ResetClearsAndRenews ==
    (hist.resets > 0 /\ hist.turns = 0)
        => /\ messages = <<>>
           /\ session_id = Uuid(hist.issued)
           /\ session_id \notin hist.sent

\* C2 as claimed: reset empties the log and renews the id, and every
\* invocation after a reset sends an id that was never sent before that reset.
C2_EveryInvocationAfterResetIsFresh ==
    /\ ResetClearsAndRenews
    /\ (Sent /\ hist.resets > 0)
           => call.current_session_id \notin hist.sentBefore

\* C2 as amended: reset empties the log and renews the id, and the first
\* invocation after a reset sends an id that was never sent before that
\* reset (later ones send the id the agent returned last, whatever it is).
C2_FirstInvocationAfterResetIsFresh ==
    /\ ResetClearsAndRenews
    /\ (Sent /\ hist.resets > 0 /\ hist.turns = 1)
           => call.current_session_id \notin hist.sentBefore

\* the first invocation after a reset has been sent, ids were sent before
C2_Witness ==
    /\ call.stage = "sent"
    /\ hist.resets > 0
    /\ hist.turns = 1
    /\ hist.sentBefore # {}

\* the turn a failed invocation must leave in the log
IsErrorTurn(m) ==
    /\ m.role = "assistant"
    /\ StartsWithAt(m.content, 1, "Error: ")
    /\ m.citations = <<>>

\* C3: a failed remote call (at the call or while the stream is consumed)
\* is returned as a response with a text starting with "Error: " and no
\* citations, which is appended as the assistant turn of the prompt; the
\* remote call is made at most once for a prompt.
C3_FailureBecomesErrorTurn ==
    /\ (hist.outcome = "failed" /\ pc \in AppendPcs)
           => /\ StartsWithAt(response.text, 1, "Error: ")
              /\ response.citations = <<>>
    /\ (hist.outcome = "failed" /\ pc \notin AppendPcs)
           => /\ Len(messages) >= 2
              /\ IsErrorTurn(messages[Len(messages)])
              /\ messages[Len(messages) - 1].role = "user"
    /\ hist.remoteCalls <= 1

\* the stream failed after the response had come with an id, and the error
\* turn is in the log
C3_Witness ==
    /\ hist.outcome = "failed"
    /\ hist.returned # NoId
    /\ hist.remoteCalls = 1
    /\ pc = "idle"
    /\ IsErrorTurn(messages[Len(messages)])

\* a prompt is being handled: its user turn is in the log, its assistant
\* turn is not yet
TurnInProgress == pc \in InvokePcs \cup AppendPcs

Alternating(log) ==
    \A i \in 1..Len(log) :
        log[i].role = IF i % 2 = 1 THEN "user" ELSE "assistant"

\* the log changes by one appended turn, or is emptied by a reset
AppendOrReset ==
    messages' # messages
        => \/ /\ messages' = <<>>
              /\ hist'.resets = hist.resets + 1
           \/ /\ Len(messages') = Len(messages) + 1
              /\ SubSeq(messages', 1, Len(messages)) = messages
              /\ messages'[Len(messages')].role = "user" => ~TurnInProgress

C5_NoInvocationWithoutConfig ==
    (AGENT_ID \in {None, ""} \/ AGENT_ALIAS_ID \in {None, ""})
        => /\ pc \in {"start", "stopped"}
           /\ hist.sent = {}
           /\ call = NoCall
           /\ messages = <<>>

\* the run stopped at the configuration check, with the alias alone missing
C5_Witness ==
    /\ Truthy(AGENT_ID)
    /\ ~Truthy(AGENT_ALIAS_ID)
    /\ pc = "stopped"

\* the text of a reference as the claim resolves it: the primary field,
\* else the fallback field
ResolvedText(reference) ==
    LET content == Get(reference, "content", Empty)
        primary == Get(content, "text", "")
    IN  IF primary # "" THEN primary ELSE Get(content, "content", "")

\* the sidebar shows exactly the references kept, in order, numbered 1..k
ShownAre(kept) ==
    /\ Len(fout.shown) = Len(kept)
    /\ \A k \in 1..Len(kept) :
           /\ fout.shown[k].num = k
           /\ fout.shown[k].text = Strip(ResolvedText(kept[k]))
           /\ fout.shown[k].uri = ReferenceUri(kept[k])

\* C6 as claimed: the citations shown are exactly the references whose
\* resolved text is non-empty, in arrival order, numbered 1..k.
C6_ShownAreNonEmptyReferences ==
    fpc # "input"
        => ShownAre(SelectSeq(Flatten(fin.citations),
                              LAMBDA r : ResolvedText(r) # ""))

\* C6 as amended: the citations shown are exactly the references whose
\* resolved text is non-empty once stripped of surrounding whitespace, in
\* arrival order, numbered 1..k without gaps.
C6_ShownAreNonBlankReferences ==
    fpc # "input"
        => ShownAre(SelectSeq(Flatten(fin.citations),
                              LAMBDA r : Strip(ResolvedText(r)) # ""))

\* two references are shown and one in front of them was dropped
C6_Witness ==
    /\ fpc = "rendered"
    /\ Len(fout.shown) = 2
    /\ Len(Flatten(fin.citations)) = 3
    /\ ReferenceText(Flatten(fin.citations)[1]) = ""
    /\ fout.shown[2].num = 2

\* C7: the markers appended to a displayed answer are [1] .. [n] with n the
\* number of citations the sidebar shows for the turn.
C7_MarkersMatchShownCitations ==
    (fpc # "input" /\ fout.once # fin.text)
        => fout.once = fin.text \o " " \o Markers(Len(fout.shown))

\* C8: the text is unchanged when there are no citations; otherwise the
\* markers [1] .. [n] are appended exactly when none of them occurs in the
\* text; applying the function to its own result changes nothing.
C8_MarkersAppendedOnce ==
    LET n == Len(Flatten(fin.citations))
        none == \A i \in 1..n : ~Contains(fin.text, Marker(i))
    IN  /\ fpc # "input"
            => fout.once = IF n > 0 /\ none
                           THEN fin.text \o " " \o Markers(n)
                           ELSE fin.text
        /\ fpc = "reprocessed" => fout.twice = fout.once

\* markers were appended, and the second application left them alone
C8_Witness ==
    /\ fpc = "reprocessed"
    /\ fin.text = "Answer text"
    /\ fout.once = "Answer text [1] [2]"
    /\ fout.twice = fout.once

\* C9: cleaning a cleaned text changes nothing.
C9_SanitizeIdempotent ==
    fpc = "twice" => fout.twice = fout.once

\* C10: when a raw text was received and its cleaned text is empty or
\* shorter than 5 characters, the returned text is the trimmed raw text;
\* and whenever a raw text was received the returned text is non-empty.
C10_ReceivedTextIsShown ==
    (pc \in AppendPcs /\ hist.outcome = "ok" /\ hist.raw # "")
        => /\ Len(cleanup_response_text(hist.raw)) < 5
                  => response.text = Strip(hist.raw)
           /\ response.text # ""

\* an issue is among those reported
Reported(issue) == \E k \in 1..Len(fout.issues) : fout.issues[k] = issue

\* c.islower() of one ASCII character
IsLowerLetter(c) == \E u \in DOMAIN LowerMap : LowerMap[u] = c

\* C11: the mid-sentence-start issue is reported exactly when the cleaned
\* text is non-empty and its first character is a lower-case letter (and so
\* none of ( [ " '); the too-short issue exactly when the cleaned length is
\* below 10 and the original length above 10; nothing else is reported.
C11_IssuesExactlyAsStated ==
    fpc = "validated"
        => /\ Reported(MidSentenceIssue)
                  <=> /\ fout.once # ""
                      /\ IsLowerLetter(Char(fout.once, 1))
                      /\ Char(fout.once, 1) \notin {"(", "[", "\"", "'"}
           /\ Reported(TooShortIssue)
                  <=> (Len(fout.once) < 10 /\ Len(fin.text) > 10)
           /\ \A k \in 1..Len(fout.issues) :
                  fout.issues[k] \in {MidSentenceIssue, TooShortIssue}

=============================================================================
